---- MODULE Spec2Model ----
(***************************************************************************)
(* A model of coverage.py: the OpenAPI loader, the seeded coverage         *)
(* partitioner, the JSON and HTML report emitters and the driver.          *)
(*                                                                         *)
(* Three specifications share the definitions:                             *)
(*   SpecCalc  a client calling calculate_coverage again and again;        *)
(*   SpecEmit  a client calling the two emitters, in either order;         *)
(*   Spec      one run of main().                                          *)
(***************************************************************************)
EXTENDS Integers, Sequences, FiniteSets, Bags, TLC

(***************************************************************************)
(* Bounds of the model.                                                    *)
(***************************************************************************)
MaxLen == 2          \* longest endpoint list drawn over the small alphabet
LongLen == 50        \* length of the long, duplicate-free endpoint list
MaxTime == 1         \* clock readings 0..MaxTime
ChunkBits == 8       \* the bit recursions of the arithmetic work in groups

(***************************************************************************)
(* Endpoint identifiers are strings; a string is a sequence of characters. *)
(***************************************************************************)
EpA == <<"/", "a">>
EpB == <<"/", "b">>
EpTag == <<"/", "<", "b", ">", "&">>

EpC == <<"/", "c">>
EpD == <<"/", "d">>

Digits == <<"0", "1", "2", "3", "4", "5", "6", "7", "8", "9">>
Numbered(i) == <<"/", "e", Digits[((i \div 10) % 10) + 1], Digits[(i % 10) + 1]>>

\* the lists a client hands to calculate_coverage: every list over two
\* endpoints up to MaxLen (duplicates included), the list of the spec's
\* scenario, and a long list of distinct endpoints
RECURSIVE SeqsUpTo(_, _)
SeqsUpTo(S, k) ==
    IF k = 0 THEN {<<>>}
    ELSE LET shorter == SeqsUpTo(S, k - 1)
         IN  shorter \cup {Append(q, x) : q \in shorter, x \in S}

ScenarioList == <<EpA, EpB, EpC, EpD>>
LongList == [i \in 1..LongLen |-> Numbered(i)]
EndpointLists == SeqsUpTo({EpA, EpB}, MaxLen) \cup {ScenarioList, LongList}

\* the percentages a client asks for; 71 is the one main() asks for
Percentages == {-50, 0, 58, 71, 100, 150}
Times == 0..MaxTime

Range(q) == {q[i] : i \in DOMAIN q}

Min(a, b) == IF a < b THEN a ELSE b
Max(a, b) == IF a > b THEN a ELSE b
Abs(a) == IF a < 0 THEN -a ELSE a

RECURSIVE Pow2(_)
Pow2(k) == IF k = 0 THEN 1 ELSE 2 * Pow2(k - 1)

(***************************************************************************)
(* IEEE-754 binary64 arithmetic, as far as line 47 uses it.  A positive    *)
(* double is [m, e]: m the 53 significand bits, most significant first,    *)
(* and e the binary exponent of the first bit.  Zero is Zero.  The sign is *)
(* carried by the callers (rounding to nearest-even is symmetric).         *)
(***************************************************************************)
MantBits == 53

Zero == [m |-> <<>>, e |-> 0]

RECURSIVE BitsToInt(_)
BitsToInt(bits) ==
    IF bits = <<>> THEN 0
    ELSE 2 * BitsToInt(SubSeq(bits, 1, Len(bits) - 1)) + bits[Len(bits)]

RECURSIVE IntToBits(_)
IntToBits(v) == IF v = 0 THEN <<>> ELSE Append(IntToBits(v \div 2), v % 2)

\* the low c bits of v, most significant first
PadBits(v, c) == [i \in 1..c |-> (v \div Pow2(c - i)) % 2]

\* bits + 1; the result is one bit longer when every bit was 1
IncBits(bits) ==
    IF \A i \in 1..Len(bits) : bits[i] = 1
    THEN <<1>> \o [i \in 1..Len(bits) |-> 0]
    ELSE LET j == CHOOSE j \in 1..Len(bits) :
                      bits[j] = 0 /\ \A i \in (j + 1)..Len(bits) : bits[i] = 1
         IN  [i \in 1..Len(bits) |->
                 IF i < j THEN bits[i] ELSE IF i = j THEN 1 ELSE 0]

\* round an exact positive value (bits, first bit 1 of weight 2^e, sticky:
\* a nonzero tail below the last bit) to MantBits bits, ties to even
RoundNearestEven(bits, e, sticky) ==
    IF Len(bits) <= MantBits
    THEN [m |-> bits \o [i \in 1..(MantBits - Len(bits)) |-> 0], e |-> e]
    ELSE LET top == SubSeq(bits, 1, MantBits)
             half == bits[MantBits + 1]
             rest == sticky \/ \E i \in (MantBits + 2)..Len(bits) : bits[i] = 1
             up == half = 1 /\ (rest \/ top[MantBits] = 1)
             inc == IncBits(top)
         IN  IF ~up THEN [m |-> top, e |-> e]
             ELSE IF Len(inc) > MantBits
                  THEN [m |-> SubSeq(inc, 1, MantBits), e |-> e + 1]
                  ELSE [m |-> inc, e |-> e]

\* k further quotient bits of r / den (r < den), and the remainder
RECURSIVE DivBits(_, _, _)
DivBits(r, den, k) ==
    IF k = 0 THEN [bits |-> <<>>, rem |-> r]
    ELSE LET c == Min(k, ChunkBits)
             q == (r * Pow2(c)) \div den
             nxt == DivBits((r * Pow2(c)) % den, den, k - c)
         IN  [bits |-> PadBits(q, c) \o nxt.bits, rem |-> nxt.rem]

\* floor(log2(a / b)) for a, b > 0
RECURSIVE ExpUp(_, _)
ExpUp(a, b) == IF 2 * b <= a THEN 1 + ExpUp(a, 2 * b) ELSE 0
RECURSIVE ExpDown(_, _)
ExpDown(a, b) == IF a < b THEN 1 + ExpDown(2 * a, b) ELSE 0

\* a / b on ints (a >= 0, b > 0): the correctly rounded quotient
TrueDiv(a, b) ==
    IF a = 0 THEN Zero
    ELSE LET e == IF a >= b THEN ExpUp(a, b) ELSE -ExpDown(a, b)
             num == IF e >= 0 THEN a ELSE a * Pow2(-e)
             den == IF e >= 0 THEN b * Pow2(e) ELSE b
             q == DivBits(num - den, den, MantBits)
         IN  RoundNearestEven(<<1>> \o q.bits, e, q.rem # 0)

\* bits * k + carry, computed from the least significant group upwards
RECURSIVE MulBits(_, _, _)
MulBits(bits, k, carry) ==
    IF bits = <<>> THEN IntToBits(carry)
    ELSE LET c == Min(Len(bits), ChunkBits)
             low == BitsToInt(SubSeq(bits, Len(bits) - c + 1, Len(bits)))
             v == low * k + carry
         IN  MulBits(SubSeq(bits, 1, Len(bits) - c), k, v \div Pow2(c))
                 \o PadBits(v % Pow2(c), c)

\* x * k for a double x >= 0 and an int k >= 0: the correctly rounded product
FloatMulInt(x, k) ==
    IF x = Zero \/ k = 0 THEN Zero
    ELSE LET p == MulBits(x.m, k, 0)
         IN  RoundNearestEven(p, x.e + (Len(p) - MantBits), FALSE)

\* int(x) for a double x >= 0
FloatToInt(x) ==
    IF x = Zero \/ x.e < 0 THEN 0 ELSE BitsToInt(SubSeq(x.m, 1, x.e + 1))

\* int((coverage_percentage / 100) * total_endpoints)
CoveredCount(coverage_percentage, total_endpoints) ==
    LET mag == FloatToInt(FloatMulInt(TrueDiv(Abs(coverage_percentage), 100),
                                      total_endpoints))
    IN  IF coverage_percentage < 0 THEN -mag ELSE mag


(***************************************************************************)
(* The module-level generator of `random`: the Mersenne Twister.  Its      *)
(* state is the seed it was last seeded with and the number of 32-bit      *)
(* words drawn since.  MT42 is the top byte of each of the first 256 words *)
(* that MT19937 yields after random.seed(42).                              *)
(***************************************************************************)
MT42 ==
   << 163, 28, 6, 189, 70, 62, 57, 35, 188, 26, 173, 189, 228, 139, 22, 151,
      108, 8, 7, 23, 55, 59, 129, 154, 6, 143, 50, 183, 166, 179, 139, 107,
      56, 114, 150, 71, 207, 222, 1, 194, 206, 40, 178, 108, 87, 71, 39, 55,
      245, 195, 86, 26, 23, 97, 24, 91, 216, 88, 154, 67, 206, 11, 186, 117,
      137, 31, 249, 236, 96, 20, 141, 75, 212, 160, 158, 226, 220, 92, 147, 49,
      180, 17, 11, 169, 58, 197, 74, 252, 20, 218, 59, 221, 25, 97, 71, 116,
      162, 213, 93, 41, 94, 90, 53, 171, 68, 179, 239, 174, 165, 18, 155, 162,
      43, 136, 186, 62, 41, 118, 97, 69, 253, 236, 163, 176, 142, 56, 175, 83,
      215, 196, 198, 14, 58, 210, 8, 206, 80, 102, 68, 16, 54, 233, 241, 145,
      224, 183, 80, 54, 167, 127, 101, 226, 234, 164, 117, 36, 67, 35, 63, 190,
      143, 137, 67, 191, 149, 109, 229, 149, 102, 92, 56, 255, 255, 35, 130, 126,
      23, 193, 12, 220, 28, 39, 160, 40, 202, 174, 108, 152, 16, 98, 97, 152,
      255, 119, 135, 64, 248, 141, 220, 241, 2, 174, 184, 29, 174, 226, 137, 192,
      68, 196, 164, 87, 28, 75, 111, 40, 116, 0, 244, 184, 224, 184, 67, 248,
      128, 195, 45, 129, 233, 27, 222, 160, 76, 215, 163, 129, 155, 50, 39, 95,
      195, 41, 138, 244, 199, 236, 135, 235, 0, 153, 82, 125, 4, 28, 237, 92
   >>

\* at import the generator is seeded from the operating system's entropy:
\* one of several states the program cannot tell apart
UnseededRng == {[seed |-> 0 - k, pos |-> 0] : k \in {1, 2}}

\* a slip: the generator is left as it was
RandomSeed_keep(a, r) == r
\* random.seed(a)
RandomSeed(a, r) == [seed |-> a, pos |-> 0]

\* the top byte of the next word.  Only the stream of seed 42 is tabled; a
\* generator seeded otherwise reads the table from an offset of its own.
NextByte(r) ==
    LET offset == IF r.seed = 42 THEN 0 ELSE 37 * Abs(r.seed)
    IN  MT42[((r.pos + offset) % Len(MT42)) + 1]

\* random.getrandbits(k), k <= 8: the top k bits of the next word
GetRandBits(r, k) ==
    [value |-> NextByte(r) \div Pow2(8 - k), rng |-> [r EXCEPT !.pos = @ + 1]]

BitLength(v) == Len(IntToBits(v))

\* Random._randbelow_with_getrandbits(n): draw until the value is below n
RECURSIVE RandBelow(_, _)
RandBelow(r, bound) ==
    LET d == GetRandBits(r, BitLength(bound))
    IN  IF d.value >= bound THEN RandBelow(d.rng, bound) ELSE d

\* one round of random.shuffle: j = randbelow(i + 1); x[i], x[j] = x[j], x[i]
\* (i is the 0-based index of the source)
ShuffleStep(i, st) ==
    LET d == RandBelow(st.rng, i + 1)
        j == d.value
    IN  [x |-> [st.x EXCEPT ![i + 1] = st.x[j + 1], ![j + 1] = st.x[i + 1]],
         rng |-> d.rng]

\* the rounds hi, hi - 1, .., lo of the loop, in that order
RECURSIVE ShuffleLoop(_, _, _)
ShuffleLoop(hi, lo, st) ==
    IF Len(st.x) < 2 \/ hi < lo THEN st
    ELSE IF hi = lo THEN ShuffleStep(hi, st)
    ELSE LET mid == (hi + lo) \div 2
         IN  ShuffleLoop(mid, lo, ShuffleLoop(hi, mid + 1, st))

\* random.shuffle(x): for i in reversed(range(1, len(x)))
RandomShuffle(x, r) == ShuffleLoop(Len(x) - 1, 1, [x |-> x, rng |-> r])

(***************************************************************************)
(* Python's slices x[:k] and x[k:]: a negative k counts from the end, and  *)
(* the bound is clamped to the list.                                       *)
(***************************************************************************)
\* a slip: `<=` for `<`, so that a bound of 0 counts from the end
SliceIndex_le(x, k) == IF k <= 0 THEN Max(k + Len(x), 0) ELSE Min(k, Len(x))
SliceIndex(x, k) == IF k < 0 THEN Max(k + Len(x), 0) ELSE Min(k, Len(x))
\* a slip: the last entries instead of the first
SliceTo_tail(x, k) == SubSeq(x, Len(x) - SliceIndex(x, k) + 1, Len(x))
SliceTo(x, k) == SubSeq(x, 1, SliceIndex(x, k))
\* a slip: the slice starts one entry late
SliceFrom_skip(x, k) == SubSeq(x, SliceIndex(x, k) + 2, Len(x))
SliceFrom(x, k) == SubSeq(x, SliceIndex(x, k) + 1, Len(x))

(***************************************************************************)
(* calculate_coverage (lines 35-63).  The covered count and the seeded     *)
(* permutation depend on the length of the list only; both are tabled once *)
(* over the lengths the model uses.                                        *)
(***************************************************************************)
PercentBase == 100

\* the paths mappings of the documents main() may find: duplicate-free lists
PathLists ==
    {<<>>, <<EpA>>, <<EpTag>>, <<EpA, EpB>>, <<EpTag, EpA>>,
     <<EpA, EpB, EpTag>>, <<EpB, EpTag, EpA>>, ScenarioList}

Lengths == {Len(x) : x \in EndpointLists \cup PathLists}

CoveredCountMemo ==
    [pct \in Percentages |-> [len \in Lengths |-> CoveredCount(pct, len)]]

Seeded42 == RandomSeed(42, [seed |-> 0, pos |-> 0])

ShuffleMemo ==
    [len \in Lengths |-> RandomShuffle([i \in 1..len |-> i], Seeded42)]

\* shuffled_endpoints = endpoints.copy(); random.shuffle(shuffled_endpoints)
ShuffledCopy(endpoints, r) ==
    IF r = Seeded42 /\ Len(endpoints) \in Lengths
    THEN LET memo == ShuffleMemo[Len(endpoints)]
         IN  [x |-> [i \in 1..Len(endpoints) |-> endpoints[memo.x[i]]],
              rng |-> memo.rng]
    ELSE RandomShuffle(endpoints, r)

\* the division of line 47 is the one operation that could raise
CalculateRaises(coverage_percentage) ==
    IF PercentBase = 0 THEN "ZeroDivisionError" ELSE "none"

\* the dictionary calculate_coverage returns, and the generator it leaves
calculate_coverage(endpoints, coverage_percentage, gen, now) ==
    LET total_endpoints == Len(endpoints)
        covered_count ==
            IF coverage_percentage \in Percentages /\ total_endpoints \in Lengths
            THEN CoveredCountMemo[coverage_percentage][total_endpoints]
            ELSE CoveredCount(coverage_percentage, total_endpoints)
        shuffled == ShuffledCopy(endpoints, RandomSeed(42, gen))
        shuffled_endpoints == shuffled.x
    IN  [data |-> [coverage_percentage |-> coverage_percentage,
                   total_endpoints |-> total_endpoints,
                   covered_endpoints |-> SliceTo(shuffled_endpoints, covered_count),
                   uncovered_endpoints |-> SliceFrom(shuffled_endpoints, covered_count),
                   timestamp |-> now],
         rng |-> shuffled.rng]

(***************************************************************************)
(* parse_openapi_yaml (lines 7-33).  The input file is missing, or does    *)
(* not parse, or parses to a document: None, a string, a list, or a        *)
(* mapping, which may have a `paths` key, whose value is again None, a     *)
(* list or a mapping of paths.                                             *)
(***************************************************************************)
Document(type, has_paths, paths_type, keys) ==
    [type |-> type, has_paths |-> has_paths, paths_type |-> paths_type, keys |-> keys]

Documents ==
    {Document(t, FALSE, "null", <<>>) : t \in {"null", "str", "list", "map"}}
        \cup {Document("map", TRUE, t, <<>>) : t \in {"null", "list"}}
        \cup {Document("map", TRUE, "map", k) : k \in PathLists}

NoDocument == Document("null", FALSE, "null", <<>>)

InputFiles ==
    {[kind |-> k, doc |-> NoDocument] : k \in {"missing", "malformed"}}
        \cup {[kind |-> "yaml", doc |-> d] : d \in Documents}

MsgNotFound == "YAML file not found at path"
MsgParseError == "Error parsing YAML file"
MsgNoEndpoints == "No endpoints found or failed to parse YAML. Exiting."
MsgJson == "Mock JSON coverage report generated"
MsgHtml == "Mock HTML coverage report generated"
MsgCompleted == "Mock coverage reports generation completed successfully!"

Returned(value, printed) == [value |-> value, printed |-> printed, raised |-> "none"]
Raised(exception) == [value |-> <<>>, printed |-> <<>>, raised |-> exception]

\* openapi_spec.get('paths', {}): only a mapping has .get
GetPaths(doc) ==
    IF doc.type # "map" THEN Raised("AttributeError")
    ELSE IF doc.has_paths
         THEN Returned([type |-> doc.paths_type, keys |-> doc.keys], <<>>)
         ELSE Returned([type |-> "map", keys |-> <<>>], <<>>)

parse_openapi_yaml(file) ==
    IF file.kind = "missing" THEN Returned(<<>>, <<MsgNotFound>>)
    ELSE IF file.kind = "malformed" THEN Returned(<<>>, <<MsgParseError>>)
    ELSE LET paths == GetPaths(file.doc)
         IN  IF paths.raised # "none" THEN paths
             \* paths.keys(): only a mapping has .keys
             ELSE IF paths.value.type # "map" THEN Raised("AttributeError")
             ELSE Returned(paths.value.keys, <<>>)

(***************************************************************************)
(* The emitters (lines 65-191).  A file is absent or holds one content.    *)
(***************************************************************************)
NoData ==
    [coverage_percentage |-> 0, total_endpoints |-> 0,
     covered_endpoints |-> <<>>, uncovered_endpoints |-> <<>>, timestamp |-> 0]

NoFile == [exists |-> FALSE, content |-> <<>>]
FileOf(content) == [exists |-> TRUE, content |-> <<content>>]

\* ''.join([f'<li class="...">{ep}</li>' for ep in eps]): the markup of the
\* template is one token per tag, the endpoint goes in character by character
RECURSIVE ListItems(_, _)
ListItems(class, eps) ==
    IF eps = <<>> THEN <<>>
    ELSE <<"<li class=\"" \o class \o "\">">> \o Head(eps) \o <<"</li>">>
             \o ListItems(class, Tail(eps))

\* html_content: the interpolated parts of the template, in document order
HtmlContent(data) ==
    [bar_width |-> data.coverage_percentage,
     percentage |-> data.coverage_percentage,
     total_endpoints |-> data.total_endpoints,
     covered_count |-> Len(data.covered_endpoints),
     covered_items |-> ListItems("covered", data.covered_endpoints),
     uncovered_count |-> Len(data.uncovered_endpoints),
     uncovered_items |-> ListItems("uncovered", data.uncovered_endpoints),
     timestamp |-> data.timestamp]

Emitted(files, printed) == [fs |-> files, printed |-> printed, raised |-> "none"]
EmitRaised(files, exception) == [fs |-> files, printed |-> <<>>, raised |-> exception]

\* a slip: the directory is made and the notice printed, nothing is written
generate_mock_coverage_json_nodump(data, files) ==
    Emitted([files EXCEPT !.dir = TRUE], <<MsgJson>>)
\* os.makedirs(output_dir, exist_ok=True); open(.., 'w'); json.dump(..)
generate_mock_coverage_json(data, files) ==
    Emitted([files EXCEPT !.dir = TRUE, !.json = FileOf(data)], <<MsgJson>>)

\* open(.., 'w') in a directory nobody created fails
generate_mock_coverage_html(data, files) ==
    IF ~files.dir THEN EmitRaised(files, "FileNotFoundError")
    ELSE Emitted([files EXCEPT !.html = FileOf(HtmlContent(data))], <<MsgHtml>>)

\* the output directory before a run: absent, empty, or holding older reports
OutputStates ==
    {[dir |-> FALSE, json |-> NoFile, html |-> NoFile],
     [dir |-> TRUE, json |-> NoFile, html |-> NoFile],
     [dir |-> TRUE, json |-> FileOf(NoData), html |-> FileOf(HtmlContent(NoData))]}

FileSystems ==
    {[input |-> f, dir |-> o.dir, json |-> o.json, html |-> o.html] :
        f \in InputFiles, o \in OutputStates}

(***************************************************************************)
(* State.                                                                  *)
(***************************************************************************)
VARIABLES
    rng,            \* the state of the module-level random generator
    call,           \* the arguments of the latest calculate_coverage call
    ret,            \* what that call returned
    ref,            \* an earlier call and its result, kept for comparison
    pc,             \* where main() is, or "client" outside main()
    fs,             \* the file system: input file, output directory, reports
    fs0,            \* the file system when the run began
    endpoints,      \* main's endpoints
    coverage_data,  \* main's coverage_data (the emitters' argument)
    console,        \* the lines printed so far
    trace,          \* the functions called so far, in order
    raised          \* the exception that ended the run, or "none"

vars ==
    <<rng, call, ret, ref, pc, fs, fs0, endpoints, coverage_data, console,
      trace, raised>>

NoCall == [made |-> FALSE, endpoints |-> <<>>, coverage_percentage |-> 0]
NoRef ==
    [made |-> FALSE, endpoints |-> <<>>, coverage_percentage |-> 0,
     covered_endpoints |-> <<>>, uncovered_endpoints |-> <<>>, other |-> FALSE]
EmptyFs ==
    [input |-> [kind |-> "missing", doc |-> NoDocument], dir |-> FALSE,
     json |-> NoFile, html |-> NoFile]

(***************************************************************************)
(* SpecCalc: a client calls calculate_coverage with lists and percentages  *)
(* of its choice, any number of times.  ref remembers one of the calls,    *)
(* any one; ref.other tells that other arguments were passed since.        *)
(***************************************************************************)
InitCalc ==
    /\ rng \in UnseededRng
    /\ call = NoCall
    /\ ret = NoData
    /\ ref = NoRef
    /\ pc = "client"
    /\ fs = EmptyFs
    /\ fs0 = fs
    /\ endpoints = <<>>
    /\ coverage_data = NoData
    /\ console = <<>>
    /\ trace = <<>>
    /\ raised = "none"

Call(E, P, now, remember) ==
    LET r == calculate_coverage(E, P, rng, now)
    IN  /\ pc = "client"
        /\ raised = "none"
        /\ ~(remember /\ ref.made)
        /\ call' = [made |-> TRUE, endpoints |-> E, coverage_percentage |-> P]
        /\ raised' = CalculateRaises(P)
        /\ ret' = IF raised' = "none" THEN r.data ELSE ret
        /\ rng' = r.rng
        /\ ref' = IF remember /\ raised' = "none"
                  THEN [made |-> TRUE, endpoints |-> E, coverage_percentage |-> P,
                        covered_endpoints |-> r.data.covered_endpoints,
                        uncovered_endpoints |-> r.data.uncovered_endpoints,
                        other |-> FALSE]
                  ELSE [ref EXCEPT !.other =
                            @ \/ (ref.made /\ (E # ref.endpoints
                                               \/ P # ref.coverage_percentage))]
        /\ trace' = <<"calculate_coverage">>
        /\ UNCHANGED <<pc, fs, fs0, endpoints, coverage_data, console>>

NextCalc ==
    \E E \in EndpointLists, P \in Percentages, now \in Times, remember \in BOOLEAN :
        Call(E, P, now, remember)

SpecCalc == InitCalc /\ [][NextCalc]_vars

(***************************************************************************)
(* SpecEmit: a client holds one Coverage Result and calls the two emitters *)
(* on it, each once at most, in the order it likes.  An exception ends the *)
(* client's run.                                                           *)
(***************************************************************************)
CoverageResults ==
    {calculate_coverage(E, 71, Seeded42, now).data : E \in PathLists, now \in Times}

InitEmit ==
    /\ rng = Seeded42
    /\ call = NoCall
    /\ ret = NoData
    /\ ref = NoRef
    /\ pc = "client"
    /\ fs \in {f \in FileSystems : f.input = EmptyFs.input}
    /\ fs0 = fs
    /\ endpoints = <<>>
    /\ coverage_data \in CoverageResults
    /\ console = <<>>
    /\ trace = <<>>
    /\ raised = "none"

\* the effect of calling an emitter: on the files, the console, the run
Emit(name, out) ==
    /\ fs' = out.fs
    /\ console' = console \o out.printed
    /\ raised' = out.raised
    /\ trace' = Append(trace, name)

ClientJson ==
    /\ pc = "client" /\ raised = "none"
    /\ "generate_mock_coverage_json" \notin Range(trace)
    /\ Emit("generate_mock_coverage_json",
            generate_mock_coverage_json(coverage_data, fs))
    /\ UNCHANGED <<rng, call, ret, ref, pc, fs0, endpoints, coverage_data>>

ClientHtml ==
    /\ pc = "client" /\ raised = "none"
    /\ "generate_mock_coverage_html" \notin Range(trace)
    /\ Emit("generate_mock_coverage_html",
            generate_mock_coverage_html(coverage_data, fs))
    /\ UNCHANGED <<rng, call, ret, ref, pc, fs0, endpoints, coverage_data>>

NextEmit == ClientJson \/ ClientHtml

SpecEmit == InitEmit /\ [][NextEmit]_vars

(***************************************************************************)
(* Spec: one run of main() (lines 193-213).  pc names the statement main   *)
(* is about to execute.                                                    *)
(***************************************************************************)
TargetPercentage == 71

\* a slip: `endpoints is None`, which no list satisfies
IsEmptyList_never(x) == FALSE
\* `not endpoints`
IsEmptyList(x) == x = <<>>

Init ==
    /\ rng \in UnseededRng
    /\ call = NoCall
    /\ ret = NoData
    /\ ref = NoRef
    /\ pc = "load"
    /\ fs \in FileSystems
    /\ fs0 = fs
    /\ endpoints = <<>>
    /\ coverage_data = NoData
    /\ console = <<>>
    /\ trace = <<>>
    /\ raised = "none"

\* line 201: endpoints = parse_openapi_yaml(yaml_file_path)
MainLoad ==
    LET out == parse_openapi_yaml(fs.input)
    IN  /\ pc = "load"
        /\ trace' = Append(trace, "parse_openapi_yaml")
        /\ console' = console \o out.printed
        /\ raised' = out.raised
        /\ endpoints' = IF out.raised = "none" THEN out.value ELSE endpoints
        /\ pc' = IF out.raised = "none" THEN "check" ELSE "raised"
        /\ UNCHANGED <<rng, call, ret, ref, fs, fs0, coverage_data>>

\* lines 202-204: if not endpoints: print(..); return
MainCheck ==
    /\ pc = "check"
    /\ IF IsEmptyList(endpoints)
       THEN /\ console' = Append(console, MsgNoEndpoints)
            /\ pc' = "returned"
       ELSE /\ console' = console
            /\ pc' = "calculate"
    /\ UNCHANGED <<rng, call, ret, ref, fs, fs0, endpoints, coverage_data,
                   trace, raised>>

\* line 207: coverage_data = calculate_coverage(endpoints, coverage_percentage=71)
MainCalculate(now) ==
    LET r == calculate_coverage(endpoints, TargetPercentage, rng, now)
    IN  /\ pc = "calculate"
        /\ trace' = Append(trace, "calculate_coverage")
        /\ call' = [made |-> TRUE, endpoints |-> endpoints,
                    coverage_percentage |-> TargetPercentage]
        /\ ret' = r.data
        /\ rng' = r.rng
        /\ coverage_data' = r.data
        /\ pc' = "json"
        /\ UNCHANGED <<ref, fs, fs0, endpoints, console, raised>>

\* line 210: generate_mock_coverage_json(coverage_data, output_dir)
MainJson ==
    LET out == generate_mock_coverage_json(coverage_data, fs)
    IN  /\ pc = "json"
        /\ Emit("generate_mock_coverage_json", out)
        /\ pc' = IF out.raised = "none" THEN "html" ELSE "raised"
        /\ UNCHANGED <<rng, call, ret, ref, fs0, endpoints, coverage_data>>

\* line 211: generate_mock_coverage_html(coverage_data, output_dir)
MainHtml ==
    LET out == generate_mock_coverage_html(coverage_data, fs)
    IN  /\ pc = "html"
        /\ Emit("generate_mock_coverage_html", out)
        /\ pc' = IF out.raised = "none" THEN "finish" ELSE "raised"
        /\ UNCHANGED <<rng, call, ret, ref, fs0, endpoints, coverage_data>>

\* line 213: print the completion notice; main returns
MainFinish ==
    /\ pc = "finish"
    /\ console' = Append(console, MsgCompleted)
    /\ pc' = "done"
    /\ UNCHANGED <<rng, call, ret, ref, fs, fs0, endpoints, coverage_data,
                   trace, raised>>

Next ==
    \/ MainLoad
    \/ MainCheck
    \/ \E now \in Times : MainCalculate(now)
    \/ MainJson
    \/ MainHtml
    \/ MainFinish

Spec == Init /\ [][Next]_vars

(***************************************************************************)
(* Properties of calculate_coverage, checked under SpecCalc.               *)
(***************************************************************************)
NoDuplicates(q) == Cardinality(Range(q)) = Len(q)
SeqToBag(q) == [x \in Range(q) |-> Cardinality({i \in DOMAIN q : q[i] = x})]
IsPrefix(p, q) == Len(p) <= Len(q) /\ SubSeq(q, 1, Len(p)) = p

\* C1, as claimed: for every list E and percentage P the two subsets
\* partition E: the lengths add up to len(E) = total_endpoints, the union of
\* the two sets is set(E), and the two sets are disjoint.
C1_PartitionAnyList ==
    call.made =>
        /\ Len(ret.covered_endpoints) + Len(ret.uncovered_endpoints)
               = Len(call.endpoints)
        /\ ret.total_endpoints = Len(call.endpoints)
        /\ Range(ret.covered_endpoints) \cup Range(ret.uncovered_endpoints)
               = Range(call.endpoints)
        /\ Range(ret.covered_endpoints) \cap Range(ret.uncovered_endpoints) = {}

\* C1, amended: the lengths add up, the union is set(E), covered followed by
\* uncovered is a rearrangement of E, and the two sets are disjoint whenever
\* E has no duplicate entry.
C1_Partition ==
    call.made =>
        /\ Len(ret.covered_endpoints) + Len(ret.uncovered_endpoints)
               = Len(call.endpoints)
        /\ ret.total_endpoints = Len(call.endpoints)
        /\ Range(ret.covered_endpoints) \cup Range(ret.uncovered_endpoints)
               = Range(call.endpoints)
        /\ SeqToBag(ret.covered_endpoints \o ret.uncovered_endpoints)
               = SeqToBag(call.endpoints)
        /\ NoDuplicates(call.endpoints) =>
               Range(ret.covered_endpoints) \cap Range(ret.uncovered_endpoints) = {}

\* a duplicate-free list was split into two non-empty subsets, and so was a
\* list with a duplicate (in some other call)
C1_Witness ==
    /\ call.made
    /\ Len(call.endpoints) >= 4
    /\ NoDuplicates(call.endpoints)
    /\ ret.covered_endpoints # <<>>
    /\ ret.uncovered_endpoints # <<>>
    /\ call.endpoints # ret.covered_endpoints \o ret.uncovered_endpoints

\* C2: for P in [0,100] the covered subset has floor(len(E) * P / 100)
\* entries.
C2_FloorCount ==
    (call.made /\ call.coverage_percentage \in 0..100) =>
        Len(ret.covered_endpoints)
            = (Len(call.endpoints) * call.coverage_percentage) \div 100

\* C3: two calls with the same E and P return the same covered and the same
\* uncovered list, whatever was called in between; only the timestamp of the
\* two results may differ.
C3_Deterministic ==
    (ref.made /\ call.made
        /\ call.endpoints = ref.endpoints
        /\ call.coverage_percentage = ref.coverage_percentage) =>
        /\ ret.covered_endpoints = ref.covered_endpoints
        /\ ret.uncovered_endpoints = ref.uncovered_endpoints
        /\ ret.coverage_percentage = ref.coverage_percentage
        /\ ret.total_endpoints = Len(ref.endpoints)

\* the remembered call has been repeated after a call with other arguments
C3_Witness ==
    /\ ref.made /\ call.made /\ ref.other
    /\ call.endpoints = ref.endpoints
    /\ call.coverage_percentage = ref.coverage_percentage
    /\ Len(call.endpoints) >= 4
    /\ ret.covered_endpoints # <<>>
    /\ ret.uncovered_endpoints # <<>>

\* C8: P = 0 gives an empty covered list, P = 100 an empty uncovered list,
\* and the empty list gives two empty subsets, a total of 0 and no error.
C8_Edges ==
    call.made =>
        /\ call.coverage_percentage = 0 =>
               raised = "none" /\ ret.covered_endpoints = <<>>
        /\ call.coverage_percentage = 100 =>
               raised = "none" /\ ret.uncovered_endpoints = <<>>
        /\ call.endpoints = <<>> =>
               /\ raised = "none"
               /\ ret.covered_endpoints = <<>>
               /\ ret.uncovered_endpoints = <<>>
               /\ ret.total_endpoints = 0

\* a non-empty list was passed with P = 0
C8_Witness ==
    /\ call.made
    /\ call.coverage_percentage = 0
    /\ Len(call.endpoints) >= 2
    /\ Len(ret.uncovered_endpoints) = Len(call.endpoints)

\* C10: for the same E and P1 <= P2 in [0,100], the covered list at P1 is a
\* prefix of the covered list at P2, and covered followed by uncovered is the
\* same sequence at both.
C10_Monotone ==
    (ref.made /\ call.made
        /\ call.endpoints = ref.endpoints
        /\ ref.coverage_percentage \in 0..100
        /\ call.coverage_percentage \in 0..100) =>
        /\ ref.coverage_percentage <= call.coverage_percentage =>
               IsPrefix(ref.covered_endpoints, ret.covered_endpoints)
        /\ call.coverage_percentage <= ref.coverage_percentage =>
               IsPrefix(ret.covered_endpoints, ref.covered_endpoints)
        /\ ret.covered_endpoints \o ret.uncovered_endpoints
               = ref.covered_endpoints \o ref.uncovered_endpoints

\* the same list was split at a smaller and then at a larger percentage, and
\* the covered list grew
C10_Witness ==
    /\ ref.made /\ call.made
    /\ call.endpoints = ref.endpoints
    /\ 0 < ref.coverage_percentage
    /\ ref.coverage_percentage < call.coverage_percentage
    /\ call.coverage_percentage <= 100
    /\ NoDuplicates(call.endpoints)
    /\ ref.covered_endpoints # <<>>
    /\ Len(ref.covered_endpoints) < Len(ret.covered_endpoints)
    /\ ret.uncovered_endpoints # <<>>

(***************************************************************************)
(* Properties of the loader and the driver, checked under Spec.            *)
(***************************************************************************)
FullTrace ==
    <<"parse_openapi_yaml", "calculate_coverage",
      "generate_mock_coverage_json", "generate_mock_coverage_html">>

\* the loader has returned (it did not raise) and main holds its result
LoaderReturned == pc # "load" /\ ~(raised # "none" /\ Len(trace) = 1)

\* C4: when the loader returns an empty list, main prints the failure notice
\* and returns; it calls neither the partitioner nor an emitter and leaves
\* the output directory and the report files as they were.
C4_EmptyListExits ==
    (LoaderReturned /\ endpoints = <<>>) =>
        /\ pc \in {"check", "returned"}
        /\ raised = "none"
        /\ trace = <<"parse_openapi_yaml">>
        /\ fs = fs0
        /\ pc = "returned" =>
               console # <<>> /\ console[Len(console)] = MsgNoEndpoints

\* main has returned early on a document whose paths mapping is empty, with
\* older reports in place
C4_Witness ==
    /\ pc = "returned"
    /\ fs.input.kind = "yaml"
    /\ fs.input.doc.has_paths
    /\ fs0.json.exists
    /\ console = <<MsgNoEndpoints>>

\* the document has no usable `paths`: it is None, or not a mapping, or a
\* mapping without the key, or a mapping whose `paths` is None
NoPathsKey(doc) == doc.type # "map" \/ ~doc.has_paths \/ doc.paths_type = "null"

\* C5: on a file that parses but has no `paths` key (an empty document, a
\* top-level non-mapping and `paths: null` included) the loader returns the
\* empty list and does not raise.
C5_NoPathsIsEmptyList ==
    (pc # "load" /\ fs.input.kind = "yaml" /\ NoPathsKey(fs.input.doc)) =>
        raised = "none" /\ endpoints = <<>> /\ pc # "raised"

\* html.escape of one endpoint string
RECURSIVE HtmlEscape(_)
HtmlEscape(ep) ==
    IF ep = <<>> THEN <<>>
    ELSE LET c == Head(ep)
         IN  <<IF c = "<" THEN "&lt;"
               ELSE IF c = ">" THEN "&gt;"
               ELSE IF c = "&" THEN "&amp;" ELSE c>> \o HtmlEscape(Tail(ep))

EscapedAll(eps) == [i \in DOMAIN eps |-> HtmlEscape(eps[i])]

\* C7: in the HTML report main writes, the text of every list item is the
\* endpoint with its markup characters escaped.
C7_EndpointsEscaped ==
    ("generate_mock_coverage_html" \in Range(trace) /\ fs.html.exists) =>
        LET doc == fs.html.content[1]
        IN  /\ doc.covered_items
                   = ListItems("covered", EscapedAll(coverage_data.covered_endpoints))
            /\ doc.uncovered_items
                   = ListItems("uncovered", EscapedAll(coverage_data.uncovered_endpoints))

\* C9: with a non-empty endpoint list the calls happen in the order load,
\* partition at 71, JSON, HTML; both reports are written from the one result
\* of the partition; the completion notice comes after both reports.
C9_LinearOrder ==
    (LoaderReturned /\ endpoints # <<>>) =>
        /\ IsPrefix(trace, FullTrace)
        /\ "calculate_coverage" \in Range(trace) =>
               /\ call = [made |-> TRUE, endpoints |-> endpoints,
                          coverage_percentage |-> 71]
               /\ coverage_data = ret
               /\ coverage_data.coverage_percentage = 71
        /\ "generate_mock_coverage_json" \in Range(trace) =>
               fs.dir /\ fs.json = FileOf(coverage_data)
        /\ "generate_mock_coverage_html" \in Range(trace) =>
               fs.dir /\ fs.html = FileOf(HtmlContent(coverage_data))
        /\ MsgCompleted \in Range(console) =>
               /\ pc = "done"
               /\ trace = FullTrace
               /\ fs.json = FileOf(coverage_data)
               /\ fs.html = FileOf(HtmlContent(coverage_data))
               /\ console = <<MsgJson, MsgHtml, MsgCompleted>>
        /\ pc = "done" => MsgCompleted \in Range(console)

\* a run over three endpoints has completed in a directory it had to create
C9_Witness ==
    /\ pc = "done"
    /\ Len(endpoints) >= 3
    /\ ~fs0.dir
    /\ fs.json.exists /\ fs.html.exists
    /\ console[Len(console)] = MsgCompleted

(***************************************************************************)
(* Property of the emitters, checked under SpecEmit.                       *)
(***************************************************************************)
\* C6: from a state without the output directory, the emitters called in
\* either order create it and write their report; the HTML emitter does so
\* when called alone or first.
C6_EitherOrder ==
    ~fs0.dir =>
        /\ raised = "none"
        /\ "generate_mock_coverage_json" \in Range(trace) =>
               fs.dir /\ fs.json = FileOf(coverage_data)
        /\ "generate_mock_coverage_html" \in Range(trace) =>
               fs.dir /\ fs.html = FileOf(HtmlContent(coverage_data))

====
